---- MODULE Spec2Model ----
(***************************************************************************)
(* Model of the case-analysis pipeline: CaseProcessor (src/openai.ts) and  *)
(* the POST /api/analyze-case handlers (src/index.js).                     *)
(*                                                                         *)
(* Two specifications share the variables:                                 *)
(*   SpecChunker  steps the cursor loop of splitIntoChunks one iteration   *)
(*                at a time over many texts and option settings;           *)
(*   Spec         runs one request through processCase, with the chunk     *)
(*                completion calls finishing in any order.                 *)
(***************************************************************************)
EXTENDS Integers, Sequences, FiniteSets, TLC

\* ------------------------------------------------------------------ bounds
MaxSegs == 5         \* a chunker text is built from at most this many segments
MaxCaseLen == 9      \* longest case text of a pipeline run

\* ------------------------------------------------------- program constants
DefaultMaxTokensPerChunk == 2000
DefaultOverlapTokens == 200
CharsPerToken == 4

NL == "\n"

\* Iteration cap of the cursor loop in the model.  A loop that returns does
\* so within Len(text) iterations, so a run that meets the cap never returns.
MaxIter == 4 * MaxSegs + 2

\* ------------------------------------------------------------------ inputs
Segments == { <<"a">>, <<"a", "a", "a", "a">>, <<".", " ">>, <<NL, NL>> }

RECURSIVE TextsUpTo(_)
TextsUpTo(k) ==
    IF k = 0 THEN { <<>> }
    ELSE LET prev == TextsUpTo(k - 1)
         IN  prev \cup { t \o s : t \in prev, s \in Segments }

ChunkerTexts == TextsUpTo(MaxSegs)

DefaultOptions ==
    [maxTokensPerChunk |-> DefaultMaxTokensPerChunk,
     overlapTokens     |-> DefaultOverlapTokens]

OptionChoices ==
    [maxTokensPerChunk : {1, 2, DefaultMaxTokensPerChunk},
     overlapTokens     : {0, 1, DefaultOverlapTokens}]

\* ------------------------------------------------ JavaScript string helpers
Max(a, b) == IF a > b THEN a ELSE b
Min(a, b) == IF a < b THEN a ELSE b

\* String.prototype.slice(from, to): negative indices count from the end.
Slice(s, from, to) ==
    LET n  == Len(s)
        lo == IF from < 0 THEN Max(n + from, 0) ELSE Min(from, n)
        hi == IF to < 0 THEN Max(n + to, 0) ELSE Min(to, n)
    IN  IF hi <= lo THEN <<>> ELSE SubSeq(s, lo + 1, hi)

\* Offset at which slice(from, ..) starts reading.
SliceStart(s, from) ==
    IF from < 0 THEN Max(Len(s) + from, 0) ELSE Min(from, Len(s))

\* String.prototype.lastIndexOf(pat): 0-based, -1 when absent.
LastIndexOf(s, pat) ==
    LET hits == { i \in 0..(Len(s) - Len(pat)) :
                    SubSeq(s, i + 1, i + Len(pat)) = pat }
    IN  IF hits = {} THEN -1
        ELSE CHOOSE i \in hits : \A j \in hits : j <= i

\* ------------------------------------------------ splitIntoChunks, one pass
ChunkSize(o) == o.maxTokensPerChunk * CharsPerToken
Overlap(o)   == o.overlapTokens * CharsPerToken

\* lines 61-63: chunk.length / 2 is a real division, so x > length/2 is
\* 2*x > length.
BreakPoint(chunk) ==
    LET lastParagraph == LastIndexOf(chunk, <<NL, NL>>)
        lastSentence  == LastIndexOf(chunk, <<".", " ">>)
    IN  IF 2 * lastParagraph > Len(chunk) THEN lastParagraph
        ELSE IF 2 * lastSentence > Len(chunk) THEN lastSentence + 1
        ELSE Len(chunk)

\* lines 55-65: the chunk cut at cursor position i.
ChunkAt(t, o, i) ==
    LET raw == Slice(t, i, i + ChunkSize(o))
    IN  IF i + ChunkSize(o) < Len(t)
        THEN Slice(raw, 0, BreakPoint(raw))
        ELSE raw

\* the cursor advanced by the window size instead of the chunk's length
NextStart_WindowSize(i, chunk, o) == i + ChunkSize(o) - Overlap(o)

\* line 68
NextStart(i, chunk, o) == i + Len(chunk) - Overlap(o)

\* the whole loop, as processCase runs it (synchronously): the list of
\* chunks, or diverged when the loop is still running after MaxIter passes.
RECURSIVE SplitLoop(_, _, _, _)
SplitLoop(t, o, i, acc) ==
    IF ~(i < Len(t)) THEN [diverged |-> FALSE, chunks |-> acc]
    ELSE IF Len(acc) >= MaxIter THEN [diverged |-> TRUE, chunks |-> acc]
    ELSE LET c == ChunkAt(t, o, i)
         IN  SplitLoop(t, o, NextStart(i, c, o), Append(acc, c))

SplitIntoChunks(t, o) == SplitLoop(t, o, 0, <<>>)

\* ------------------------------------------------------ request inputs
\* req.body.caseText: a string, a missing field, or a (non-zero) number
StringValue(t) == [kind |-> "string", chars |-> t]
UndefinedValue == [kind |-> "undefined", chars |-> <<>>]
NumberValue    == [kind |-> "number", chars |-> <<>>]

CaseTexts ==
    { [i \in 1..n |-> "a"] : n \in 0..MaxCaseLen }
        \cup { <<"a", ".", " ", "a", ".">> }

CaseValues == { StringValue(t) : t \in CaseTexts } \cup { UndefinedValue, NumberValue }

\* option settings a caller of the exported class passes to the constructor
DirectOptions ==
    { [maxTokensPerChunk |-> 1, overlapTokens |-> 0],
      [maxTokensPerChunk |-> 2, overlapTokens |-> 0],
      [maxTokensPerChunk |-> 2, overlapTokens |-> 1],
      DefaultOptions }

\* JavaScript truthiness of caseText, for `if (!caseText)`
Falsy(v) == v.kind = "undefined" \/ (v.kind = "string" /\ v.chars = <<>>)

\* ------------------------------------------- completion-service responses
\* A response content is a sequence of sections (split on a blank line),
\* a section a sequence of lines.
Contents ==
    { << <<"summary">>, <<"key points:", "p1", "p2">>,
         <<"next steps:", "s1">>, <<"confidence: 0.8">> >>,
      << <<"key points:", "p1", "p1", "p3">>,
         <<"next steps:", "s1", "s2">>, <<"confidence: 1.5">> >>,
      << <<"key points and next steps:", "p2", "s1">>,
         <<"confidence: 0.25">> >>,
      << <<"">> >> }

SummaryContents == { "", "final summary" }

Errors == { [isError |-> TRUE, message |-> "rate limited"],
            [isError |-> TRUE, message |-> "timeout"] }

TypeErrorLength ==
    [isError |-> TRUE, message |-> "Cannot read properties of undefined"]

\* s.includes(marker), for the lines the responses are made of
KeyPointsLines == { "key points:", "key points and next steps:" }
NextStepsLines == { "next steps:", "key points and next steps:" }

SectionIncludes(section, markerLines) ==
    \E i \in 1..Len(section) : section[i] \in markerLines

\* sections.find(...)?.split('\n').slice(1) || []
LinesAfterMarker(content, markerLines) ==
    LET hits == { i \in 1..Len(content) : SectionIncludes(content[i], markerLines) }
    IN  IF hits = {} THEN <<>>
        ELSE Tail(content[CHOOSE i \in hits : \A j \in hits : i <= j])

\* the pattern loosened to /confidence: (\d\.\d+)/
ConfidenceCapture_AnyDigit(line) ==
    CASE line = "confidence: 0.8"  -> "0.8"
      [] line = "confidence: 0.25" -> "0.25"
      [] line = "confidence: 1.5"  -> "1.5"
      [] OTHER                     -> ""

\* content.match(/confidence: (0\.\d+)/)?.[1] on one line: the captured
\* digits, or "" when the line does not match
ConfidenceCapture(line) ==
    CASE line = "confidence: 0.8"  -> "0.8"
      [] line = "confidence: 0.25" -> "0.25"
      [] OTHER                     -> ""

\* the first match in the whole content, || '0'
ConfidenceToken(content) ==
    LET lines == UNION { { <<i, j>> : j \in { k \in 1..Len(content[i]) :
                                     ConfidenceCapture(content[i][k]) # "" } } :
                         i \in 1..Len(content) }
    IN  IF lines = {} THEN "0"
        ELSE LET first == CHOOSE p \in lines :
                            \A q \in lines :
                               p[1] < q[1] \/ (p[1] = q[1] /\ p[2] <= q[2])
             IN  ConfidenceCapture(content[first[1]][first[2]])

\* Number.parseFloat, in hundredths
ParseFloat(token) ==
    CASE token = "0.8"  -> 80
      [] token = "0.25" -> 25
      [] token = "1.5"  -> 150
      [] OTHER          -> 0

ParseGPTResponse(content) ==
    [keyPoints  |-> LinesAfterMarker(content, KeyPointsLines),
     nextSteps  |-> LinesAfterMarker(content, NextStepsLines),
     confidence |-> ParseFloat(ConfidenceToken(content))]

NoContent == <<>>
NoAnalysis == [keyPoints |-> <<>>, nextSteps |-> <<>>, confidence |-> 0]

\* ------------------------------------------------------------ the merge
\* the list left as pushed
Dedupe_Keep(list) == list

\* [...new Set(list)]: first occurrences, in order
RECURSIVE Dedupe(_)
Dedupe(list) ==
    IF list = <<>> THEN <<>>
    ELSE LET front == Dedupe(SubSeq(list, 1, Len(list) - 1))
             last  == list[Len(list)]
         IN  IF \E i \in 1..Len(front) : front[i] = last
             THEN front ELSE Append(front, last)

\* a number as a fraction of hundredths; den = 0 is NaN (0 / 0)
Divide(total, count) == [num |-> total, den |-> count]

\* lines 143-149
InitialMerged ==
    [summary |-> "", keyPoints |-> <<>>, nextSteps |-> <<>>,
     confidence |-> Divide(100, 1)]

\* lines 151-161: forEach over chunkAnalyses, then the division
RECURSIVE MergeFrom(_, _, _, _)
MergeFrom(as, i, acc, total) ==
    IF i > Len(as)
    THEN [acc EXCEPT !.confidence = Divide(total, Len(as))]
    ELSE MergeFrom(as, i + 1,
                   [acc EXCEPT !.keyPoints = @ \o as[i].keyPoints,
                               !.nextSteps = @ \o as[i].nextSteps],
                   total + as[i].confidence)

MergeAnalyses(as) == MergeFrom(as, 1, InitialMerged, 0)

\* lines 178-183
Finalize(m, summaryContent) ==
    [m EXCEPT !.summary = summaryContent,
              !.keyPoints = Dedupe(m.keyPoints),
              !.nextSteps = Dedupe(m.nextSteps)]

\* ------------------------------------------------------ the HTTP answer
NoResponse == [status |-> 0, details |-> ""]

ErrorDetails(err) ==
    IF err.isError THEN err.message ELSE "Unknown error occurred"

\* what the handler answers when processCase settles (direct callers get
\* the promise itself)
RespondReturned(e) ==
    IF e \in {"v1", "v2"} THEN [status |-> 200, details |-> ""] ELSE NoResponse

RespondThrew(e, err) ==
    IF e \in {"v1", "v2"} THEN [status |-> 500, details |-> ErrorDetails(err)]
    ELSE NoResponse

\* ---------------------------------------------------------------- state
VARIABLES
    text,         \* chunker: the text being split
    options,      \* chunker / processor: this.options
    startIndex,   \* chunker: the cursor
    chunks,       \* chunker / processCase: the list of chunks
    starts,       \* chunker: offset at which each pushed chunk was read
    cpc,          \* chunker: "loop" | "done"
    entry,        \* "none" | "direct" | "v1" | "v2": who called processCase
    caseText,     \* the value handed to processCase
    pc,           \* "idle" | "awaitingChunks" | "awaitingSummary"
                  \* | "diverged" | "finished"
    calls,        \* per chunk: "pending" | "ok" | "failed"
    responses,    \* per chunk: the content its call returned, once it has
    analyses,     \* per chunk: the parsed analysis once its call returned
    merged,       \* mergedAnalysis
    summaryCall,  \* "none" | "pending" | "ok" | "failed"
    outcome,      \* how processCase settled
    http,         \* the handler's answer
    chunkCallsIssued,
    summaryCallsIssued

chunkerVars == <<text, startIndex, starts, cpc>>
pipelineVars == <<entry, caseText, pc, calls, responses, analyses, merged, summaryCall,
                  outcome, http, chunkCallsIssued, summaryCallsIssued>>
vars == <<text, options, startIndex, chunks, starts, cpc, entry, caseText, pc,
          calls, responses, analyses, merged, summaryCall, outcome, http,
          chunkCallsIssued, summaryCallsIssued>>

NoOutcome == [kind |-> "none", error |-> [isError |-> FALSE, message |-> ""]]
Returned  == [kind |-> "returned", error |-> [isError |-> FALSE, message |-> ""]]
Threw(err) == [kind |-> "threw", error |-> err]

PipelineIdle ==
    /\ entry = "none"
    /\ caseText = UndefinedValue
    /\ pc = "idle"
    /\ calls = <<>>
    /\ responses = <<>>
    /\ analyses = <<>>
    /\ merged = InitialMerged
    /\ summaryCall = "none"
    /\ outcome = NoOutcome
    /\ http = NoResponse
    /\ chunkCallsIssued = 0
    /\ summaryCallsIssued = 0

\* ------------------------------------------------------------ SpecChunker
ChunkerInit ==
    /\ text \in ChunkerTexts
    /\ options \in OptionChoices
    /\ startIndex = 0
    /\ chunks = <<>>
    /\ starts = <<>>
    /\ cpc = "loop"
    /\ PipelineIdle

\* one pass of the while body, lines 54-69
LoopIterate ==
    /\ cpc = "loop"
    /\ startIndex < Len(text)
    /\ Len(chunks) < MaxIter
    /\ LET c == ChunkAt(text, options, startIndex)
       IN  /\ chunks' = Append(chunks, c)
           /\ starts' = Append(starts, SliceStart(text, startIndex))
           /\ startIndex' = NextStart(startIndex, c, options)
    /\ UNCHANGED <<text, options, cpc>>
    /\ UNCHANGED pipelineVars

\* the while condition fails, line 71
LoopExit ==
    /\ cpc = "loop"
    /\ ~(startIndex < Len(text))
    /\ cpc' = "done"
    /\ UNCHANGED <<text, options, startIndex, chunks, starts>>
    /\ UNCHANGED pipelineVars

ChunkerNext == LoopIterate \/ LoopExit

SpecChunker == ChunkerInit /\ [][ChunkerNext]_vars

\* ------------------------------------------------------------------ Spec
Init ==
    /\ text = <<>>
    /\ options = DefaultOptions
    /\ startIndex = 0
    /\ chunks = <<>>
    /\ starts = <<>>
    /\ cpc = "done"
    /\ PipelineIdle

\* the await of the summary completion, lines 163-176, after the merge
IssueSummary(as) ==
    /\ merged' = MergeAnalyses(as)
    /\ summaryCall' = "pending"
    /\ summaryCallsIssued' = summaryCallsIssued + 1
    /\ pc' = "awaitingSummary"

\* processCase up to its first suspension, lines 137-140: the split runs
\* to completion (it never awaits), then every chunk call is issued
BeginProcessCase(e, v, o) ==
    /\ entry' = e
    /\ caseText' = v
    /\ options' = o
    /\ IF v.kind = "undefined"
       THEN \* text.length throws
            /\ outcome' = Threw(TypeErrorLength)
            /\ http' = RespondThrew(e, TypeErrorLength)
            /\ pc' = "finished"
            /\ UNCHANGED <<chunks, calls, responses, analyses, merged,
                           summaryCall, chunkCallsIssued, summaryCallsIssued>>
       ELSE LET r == IF v.kind = "string"
                     THEN SplitIntoChunks(v.chars, o)
                     ELSE \* 0 < undefined is false
                          [diverged |-> FALSE, chunks |-> <<>>]
            IN  /\ chunks' = r.chunks
                /\ IF r.diverged
                   THEN /\ pc' = "diverged"
                        /\ UNCHANGED <<calls, responses, analyses, merged,
                                       summaryCall, outcome, http,
                                       chunkCallsIssued, summaryCallsIssued>>
                   ELSE IF r.chunks = <<>>
                   THEN \* Promise.all([]) resolves at once
                        /\ IssueSummary(<<>>)
                        /\ UNCHANGED <<calls, responses, analyses, outcome,
                                       http, chunkCallsIssued>>
                   ELSE /\ calls' = [i \in 1..Len(r.chunks) |-> "pending"]
                        /\ responses' = [i \in 1..Len(r.chunks) |-> NoContent]
                        /\ analyses' = [i \in 1..Len(r.chunks) |-> NoAnalysis]
                        /\ chunkCallsIssued' = chunkCallsIssued + Len(r.chunks)
                        /\ pc' = "awaitingChunks"
                        /\ UNCHANGED <<merged, summaryCall, outcome, http,
                                       summaryCallsIssued>>
    /\ UNCHANGED chunkerVars

\* a caller of the exported class
ProcessCaseDirect ==
    /\ pc = "idle"
    /\ \E v \in CaseValues, o \in DirectOptions : BeginProcessCase("direct", v, o)

\* POST /api/analyze-case, index.js lines 118-162
AnalyzeCaseV1 ==
    /\ pc = "idle"
    /\ \E v \in CaseValues :
         IF Falsy(v)
         THEN /\ entry' = "v1"
              /\ caseText' = v
              /\ http' = [status |-> 400, details |-> "Case text is required"]
              /\ pc' = "finished"
              /\ UNCHANGED <<options, chunks, calls, responses, analyses,
                             merged, summaryCall, outcome, chunkCallsIssued,
                             summaryCallsIssued>>
              /\ UNCHANGED chunkerVars
         ELSE BeginProcessCase("v1", v, DefaultOptions)

\* POST /api/analyze-case, index.js lines 238-276
AnalyzeCaseV2 ==
    /\ pc = "idle"
    /\ \E v \in CaseValues : BeginProcessCase("v2", v, DefaultOptions)

\* Promise.allSettled: waits for every call, never rejects
PromiseAll_Settled(cs) ==
    IF \A i \in 1..Len(cs) : cs[i] # "pending" THEN "resolved" ELSE "pending"

\* Promise.any: resolved by the first call that returns
PromiseAll_Race(cs) ==
    IF \E i \in 1..Len(cs) : cs[i] = "ok" THEN "resolved"
    ELSE IF \A i \in 1..Len(cs) : cs[i] = "failed" THEN "rejected"
    ELSE "pending"

\* Promise.all over the chunk calls, lines 138-140: rejected as soon as one
\* call has failed, resolved once every call has returned
PromiseAll(cs) ==
    IF \E i \in 1..Len(cs) : cs[i] = "failed" THEN "rejected"
    ELSE IF \A i \in 1..Len(cs) : cs[i] = "ok" THEN "resolved"
    ELSE "pending"

\* processCase resumes after `await Promise.all(...)` when a call settles
\* while it is still waiting; a call that settles later changes nothing
ResumeAfterChunks(err) ==
    IF pc = "awaitingChunks" /\ PromiseAll(calls') = "rejected"
    THEN /\ outcome' = Threw(err)
         /\ http' = RespondThrew(entry, err)
         /\ pc' = "finished"
         /\ UNCHANGED <<merged, summaryCall, summaryCallsIssued>>
    ELSE IF pc = "awaitingChunks" /\ PromiseAll(calls') = "resolved"
    THEN /\ IssueSummary(analyses')
         /\ UNCHANGED <<outcome, http>>
    ELSE UNCHANGED <<merged, summaryCall, summaryCallsIssued, outcome, http, pc>>

\* the completion call of chunk i resolves: analyzeChunk parses the content
ChunkCallReturns ==
    \E i \in 1..Len(calls), content \in Contents :
       /\ calls[i] = "pending"
       /\ calls' = [calls EXCEPT ![i] = "ok"]
       /\ responses' = [responses EXCEPT ![i] = content]
       /\ analyses' = [analyses EXCEPT ![i] = ParseGPTResponse(content)]
       /\ ResumeAfterChunks(NoOutcome.error)
       /\ UNCHANGED <<options, chunks, entry, caseText, chunkCallsIssued>>
       /\ UNCHANGED chunkerVars

\* the completion call of chunk i rejects: analyzeChunk logs and rethrows
ChunkCallFails ==
    \E i \in 1..Len(calls), err \in Errors :
       /\ calls[i] = "pending"
       /\ calls' = [calls EXCEPT ![i] = "failed"]
       /\ UNCHANGED <<responses, analyses>>
       /\ ResumeAfterChunks(err)
       /\ UNCHANGED <<options, chunks, entry, caseText, chunkCallsIssued>>
       /\ UNCHANGED chunkerVars

\* the summary call resolves, lines 178-185
SummaryReturns ==
    \E content \in SummaryContents :
       /\ pc = "awaitingSummary"
       /\ summaryCall = "pending"
       /\ summaryCall' = "ok"
       /\ merged' = Finalize(merged, content)
       /\ outcome' = Returned
       /\ http' = RespondReturned(entry)
       /\ pc' = "finished"
       /\ UNCHANGED <<options, chunks, entry, caseText, calls, responses,
                      analyses, chunkCallsIssued, summaryCallsIssued>>
       /\ UNCHANGED chunkerVars

\* the summary call rejects: processCase throws
SummaryFails ==
    \E err \in Errors :
       /\ pc = "awaitingSummary"
       /\ summaryCall = "pending"
       /\ summaryCall' = "failed"
       /\ outcome' = Threw(err)
       /\ http' = RespondThrew(entry, err)
       /\ pc' = "finished"
       /\ UNCHANGED <<options, chunks, entry, caseText, calls, responses,
                      analyses, merged, chunkCallsIssued, summaryCallsIssued>>
       /\ UNCHANGED chunkerVars

Next ==
    \/ ProcessCaseDirect
    \/ AnalyzeCaseV1
    \/ AnalyzeCaseV2
    \/ ChunkCallReturns
    \/ ChunkCallFails
    \/ SummaryReturns
    \/ SummaryFails

Spec == Init /\ [][Next]_vars

\* ================================================================ claims
\* Stand-in for the size ceiling of the request handler (1,000,000
\* characters in the description); the handlers compare caseText with no
\* ceiling at all, so any threshold below the longest case text serves.
SizeCeiling == MaxCaseLen - 1

Range(f) == { f[i] : i \in 1..Len(f) }
NoDuplicates(f) == \A i, j \in 1..Len(f) : f[i] = f[j] => i = j
End(i) == starts[i] + Len(chunks[i])
FromHandler == entry \in {"v1", "v2"}

\* C1 (SpecChunker): every pass of the cursor loop either moves the cursor
\* forward or ends the split with a fatal configuration error, so the loop
\* cannot run forever.
C1_CursorAdvancesOrFails ==
    [][(cpc = "loop" /\ startIndex < Len(text))
          => (startIndex' > startIndex \/ cpc' = "error")]_vars

\* C2 (SpecChunker): a non-empty text shorter than the maximum chunk size
\* is returned as exactly one chunk equal to the text, whatever the overlap:
\* once the first chunk is pushed the list is <<text>> and the loop is over.
C2_ShortTextOneChunk ==
    (text # <<>> /\ Len(text) < ChunkSize(options) /\ chunks # <<>>)
        => (chunks = <<text>> /\ ~(startIndex < Len(text)))

\* C3 (SpecChunker): the chunks cover the text without a gap.  When the
\* split has returned, the first chunk starts at offset 0, every later chunk
\* starts no later than the end of the one before it, the last chunk ends at
\* the end of the text and every position lies in a chunk; and while the
\* split runs with chunks no shorter than the overlap, the chunks pushed so
\* far are slices of the text that leave no gap between them.
C3_Slices ==
    \A i \in 1..Len(chunks) :
       chunks[i] = SubSeq(text, starts[i] + 1, End(i))

C3_NoGap ==
    /\ Len(chunks) > 0 => starts[1] = 0
    /\ \A i \in 2..Len(chunks) : starts[i] <= End(i - 1)

C3_Coverage ==
    /\ (\A i \in 1..Len(chunks) : Len(chunks[i]) >= Overlap(options))
          => (C3_Slices /\ C3_NoGap)
    /\ cpc = "done" =>
          /\ C3_Slices
          /\ C3_NoGap
          /\ Len(text) > 0 => (Len(chunks) > 0 /\ End(Len(chunks)) = Len(text))
          /\ \A p \in 1..Len(text) :
                \E i \in 1..Len(chunks) : starts[i] < p /\ p <= End(i)

\* the split returned three or more chunks, one of them cut at a sentence
\* or paragraph break
C3_Witness ==
    /\ cpc = "done"
    /\ Len(chunks) >= 3
    /\ \E i \in 1..(Len(chunks) - 1) : Len(chunks[i]) < ChunkSize(options)

\* C4 (Spec): fail-fast.  Once the completion call of a chunk has failed,
\* processCase has thrown one of the calls' errors, the summary call is never
\* issued and nothing of the analysis is merged, however the other calls
\* complete; and whenever processCase throws under a handler, the handler
\* answers 500 with the error's message.
C4_FailFast ==
    /\ (\E i \in 1..Len(calls) : calls[i] = "failed")
          => /\ outcome.kind = "threw"
             /\ outcome.error \in Errors
             /\ summaryCall = "none"
             /\ summaryCallsIssued = 0
             /\ merged = InitialMerged
             /\ pc = "finished"
    /\ (FromHandler /\ outcome.kind = "threw")
          => (http.status = 500 /\ http.details = outcome.error.message)

\* one chunk call failed, another returned after it and a third is still
\* in flight
C4_Witness ==
    /\ \E i, j, k \in 1..Len(calls) :
          calls[i] = "failed" /\ calls[j] = "ok" /\ calls[k] = "pending"
    /\ outcome.kind = "threw"

\* C5 (Spec): a missing, empty or non-string caseText is answered with 400
\* and no completion call, chunk analysis or summary, is issued for it.
C5_InvalidInputRejected ==
    (entry # "none" /\ (caseText.kind # "string" \/ caseText.chars = <<>>))
        => /\ chunkCallsIssued = 0
           /\ summaryCallsIssued = 0
           /\ FromHandler => http.status = 400

\* C6 (Spec): a caseText longer than the size ceiling is answered with 400
\* by the handler and splitIntoChunks is never entered for it.
C6_OversizedRejected ==
    (FromHandler /\ caseText.kind = "string" /\ Len(caseText.chars) > SizeCeiling)
        => (http.status = 400 /\ pc = "finished" /\ chunks = <<>>)

\* C7 (Spec): when the split yields no chunk, processCase fails: it issues
\* no summary call and never carries a confidence of 0/0.
C7_EmptyListIsError ==
    (entry # "none" /\ pc \notin {"idle", "diverged"}
        /\ caseText.kind # "undefined" /\ chunks = <<>> /\ http.status # 400)
        => (outcome.kind = "threw" /\ merged.confidence.den # 0)

\* the confidence a response content states, in hundredths: the number after
\* "confidence: " when it is of the form 0.d.., otherwise 0
StatedConfidence(content) ==
    IF <<"confidence: 0.8">> \in Range(content) THEN 80
    ELSE IF <<"confidence: 0.25">> \in Range(content) THEN 25
    ELSE 0

RECURSIVE SumStated(_, _)
SumStated(rs, n) ==
    IF n = 0 THEN 0 ELSE SumStated(rs, n - 1) + StatedConfidence(rs[n])

\* C8 (Spec): for a non-empty list of chunk analyses, the confidence of the
\* returned analysis is the mean of the confidences the responses state (0
\* for a response without a parsable one) and lies within [0,1].
C8_ConfidenceIsMean ==
    (outcome.kind = "returned" /\ Len(analyses) > 0)
        => /\ merged.confidence.den = Len(analyses)
           /\ merged.confidence.num = SumStated(responses, Len(responses))
           /\ 0 <= merged.confidence.num
           /\ merged.confidence.num <= 100 * merged.confidence.den

\* a returned analysis of several chunks, one response stating 0.8 and one
\* stating a confidence the pattern does not accept
C8_Witness ==
    /\ outcome.kind = "returned"
    /\ \E i, j \in 1..Len(responses) :
          /\ <<"confidence: 0.8">> \in Range(responses[i])
          /\ <<"confidence: 1.5">> \in Range(responses[j])

\* C9 (Spec): in the returned analysis keyPoints and nextSteps have no
\* duplicate entry and hold exactly the strings of the chunk analyses.
C9_Deduplicated ==
    outcome.kind = "returned"
        => /\ NoDuplicates(merged.keyPoints)
           /\ NoDuplicates(merged.nextSteps)
           /\ Range(merged.keyPoints)
                 = UNION { Range(analyses[i].keyPoints) : i \in 1..Len(analyses) }
           /\ Range(merged.nextSteps)
                 = UNION { Range(analyses[i].nextSteps) : i \in 1..Len(analyses) }

\* a returned analysis where a key point repeats inside one chunk analysis
\* and a next step repeats across two
C9_Witness ==
    /\ outcome.kind = "returned"
    /\ \E i \in 1..Len(analyses) : ~NoDuplicates(analyses[i].keyPoints)
    /\ \E i, j \in 1..Len(analyses) :
          i # j /\ Range(analyses[i].nextSteps) \cap Range(analyses[j].nextSteps) # {}

\* C10 (Spec): a run over N chunks issues N chunk-analysis calls and one
\* summary call; the summary call is issued only when all N chunk calls have
\* returned, and a returned result carries the summary of that one call.
C10_CallCounts ==
    /\ summaryCallsIssued <= 1
    /\ summaryCallsIssued = 1 <=> summaryCall # "none"
    /\ summaryCall # "none"
          => /\ chunkCallsIssued = Len(chunks)
             /\ Len(calls) = Len(chunks)
             /\ \A i \in 1..Len(calls) : calls[i] = "ok"
    /\ outcome.kind = "returned"
          => /\ summaryCall = "ok"
             /\ chunkCallsIssued = Len(chunks)
             /\ merged.summary \in SummaryContents

\* a run over three chunks that returned after its three chunk calls
C10_Witness ==
    /\ outcome.kind = "returned"
    /\ Len(chunks) = 3
    /\ chunkCallsIssued = 3

====
